---- MODULE Spec2Model ----
(***************************************************************************)
(* A model of the Google Sheets <-> Google Calendar synchronizer           *)
(* (src/unnamed/part_000): the row store (the sheet, A2:L...), the event   *)
(* repository (the calendar) and one reconciliation pass,                  *)
(* CreateOrUpdateEvents, followed by its re-import, AddEventsToSheet.      *)
(*                                                                         *)
(* Time is counted in hours since 2024-01-01T00:00 in the calendar's time  *)
(* zone; a JavaScript Date is a cell of type "d" holding that number.      *)
(* A sheet cell is a typed value, because the code tests cells with        *)
(* JavaScript's loose operators (!= '', > 0, truthiness, !==).             *)
(***************************************************************************)
EXTENDS Integers, Sequences, FiniteSets, TLC

(* ------------------------------ bounds -------------------------------- *)
MaxRows == 2
MaxPasses == 2
MaxFailures == 1

(* ------------------------- program constants -------------------------- *)
HoursPerDay == 24
DefaultColor == 8

VARIABLES
    sheet,      \* the row store: the rows of A2:L, each a tuple of 12 cells
    calendar,   \* the repository: the sequence of events, in creation order
    nextId,     \* how many ids the repository has assigned so far
    pc,         \* "idle", or "run" while CreateOrUpdateEvents executes
    pass,       \* how many passes have been started
    batch,      \* filteredCsvEv of the running (or last) pass
    range,      \* startEndDates of the running (or last) pass
    i,          \* the forEach position in batch (1-based)
    calls,      \* the repository and row-store calls of the pass, in order
    outcome,    \* per handled record: the path taken, what the lookup by
                \* id gave (and the event as fetched), and the state the
                \* record ended in
    failures,   \* repository failures that have struck so far
    ui,         \* the dialogs shown to the user by the last execution
    calendarId, \* the user property CALID
    entry       \* the entry point of the running (or last) execution

vars == <<sheet, calendar, nextId, pc, pass, batch, range, i, calls, outcome,
          failures, ui, calendarId, entry>>

(* ------------------------------ cells --------------------------------- *)
\* t: "s" string, "n" number, "b" boolean, "d" Date, "x" Invalid Date,
\*    "e" a CalendarApp.GuestStatus value, "u" undefined, "0" null.
\* A string holding a comma-separated guest list is kept as its pieces g.
Cell(t, s, n, b, g) == [t |-> t, s |-> s, n |-> n, b |-> b, g |-> g]
S(x) == Cell("s", x, 0, FALSE, <<>>)
N(x) == Cell("n", "", x, FALSE, <<>>)
B(x) == Cell("b", "", 0, x, <<>>)
D(x) == Cell("d", "", x, FALSE, <<>>)
G(x) == Cell("s", "", 0, FALSE, x)
E(x) == Cell("e", x, 0, FALSE, <<>>)
InvalidDate == Cell("x", "", 0, FALSE, <<>>)
Undefined == Cell("u", "", 0, FALSE, <<>>)
Null == Cell("0", "", 0, FALSE, <<>>)

\* 2024-mo-d h:00 as hours since 2024-01-01T00:00 (January and February).
TS(mo, d, h) == ((mo - 1) * 31 + (d - 1)) * HoursPerDay + h
\* Date.prototype.getDate(): the day of the month.
getDate(t) == LET di == t \div HoursPerDay IN IF di < 31 THEN di + 1 ELSE di - 30
\* d.setDate(d.getDate() + 1)
AddOneDay(t) == t + HoursPerDay
FloorDay(t) == (t \div HoursPerDay) * HoursPerDay


(* ---------------------- JavaScript on cells --------------------------- *)
\* c == ''  (loose): the empty string, 0 and false are all == ''.
LooseEqEmpty(c) ==
    CASE c.t = "s" -> c.s = "" /\ c.g = <<>>
      [] c.t = "n" -> c.n = 0
      [] c.t = "b" -> ~c.b
      [] OTHER -> FALSE
\* if (c): truthiness.
Truthy(c) ==
    CASE c.t = "s" -> ~(c.s = "" /\ c.g = <<>>)
      [] c.t = "n" -> c.n # 0
      [] c.t = "b" -> c.b
      [] c.t = "d" -> TRUE
      [] c.t = "e" -> TRUE
      [] OTHER -> FALSE
\* c > 0
GreaterThanZero(c) ==
    CASE c.t = "n" -> c.n > 0
      [] c.t = "b" -> c.b
      [] c.t = "d" -> c.n > 0
      [] OTHER -> FALSE
\* a !== b, a === b: no conversion, so values of two types always differ.
StrictEq(a, b) == a.t = b.t /\ a.s = b.s /\ a.n = b.n /\ a.b = b.b /\ a.g = b.g
\* a < b on two Dates; a comparison with an Invalid Date (NaN) is false.
DateLess(a, b) == a.t = "d" /\ b.t = "d" /\ a.n < b.n

\* One piece of a guest cell: "email" or "email (annot)", with a blank
\* before it (pad) when it follows ", ".
Tok(email, annot) == [email |-> email, annot |-> annot, pad |-> FALSE]
PadTok(email, annot) == [email |-> email, annot |-> annot, pad |-> TRUE]
EmptyTok == Tok("", "")
\* str.split(','): the pieces; ''.split(',') is [''].
Split(c) == IF c.g = <<>> THEN <<EmptyTok>> ELSE c.g
\* guest.replace(/\([^)]*\)/, "").trim(): the piece without its annotation
\* and without the blanks around it.
StripGuest(tok) == tok.email

(* --------------------------- the row store ---------------------------- *)
\* Column positions as CreateOrUpdateEvents reads them (event[k-1]).
ColId == 1
ColTitle == 2
ColStart == 3
ColEnd == 4
ColAllDay == 5
ColDescription == 6
ColColor == 7
ColGuests == 8
ColMyStatus == 9
ColLocation == 10
ColSendInvites == 11
ColDelete == 12

BlankRow == [c \in 1..12 |-> S("")]

\* settings.events.filter(value => value[1] != '')
RECURSIVE FilterRows(_)
FilterRows(rows) ==
    IF rows = <<>> THEN <<>>
    ELSE IF ~LooseEqEmpty(Head(rows)[ColTitle])
         THEN <<Head(rows)>> \o FilterRows(Tail(rows))
         ELSE FilterRows(Tail(rows))

(* --------------------------- Range Calculator ------------------------- *)
RECURSIVE MinOf(_)
MinOf(s) == IF Len(s) = 1 THEN s[1]
            ELSE LET m == MinOf(Tail(s)) IN IF s[1] < m THEN s[1] ELSE m
RECURSIVE MaxOf(_)
MaxOf(s) == IF Len(s) = 1 THEN s[1]
            ELSE LET m == MaxOf(Tail(s)) IN IF s[1] > m THEN s[1] ELSE m

StartsOf(events) == [k \in 1..Len(events) |-> events[k][ColStart].n]
EndsOf(events) == [k \in 1..Len(events) |-> events[k][ColEnd].n]

\* The legacy derivation: the last record's end as the upper bound.
GetStartEndDatesByEnd(events) ==
    IF events = <<>> THEN <<InvalidDate, InvalidDate>>
    ELSE <<D(MinOf(StartsOf(events))), D(MaxOf(EndsOf(events)))>>

\* Math.min() of nothing is Infinity and Math.max() is -Infinity, and with
\* a start cell that holds a text which is no number both are NaN: each
\* makes new Date(...) an Invalid Date.
GetStartEndDates(events) ==
    IF events = <<>> \/ \E k \in 1..Len(events) : events[k][ColStart].t # "d"
    THEN <<InvalidDate, InvalidDate>>
    ELSE <<D(MinOf(StartsOf(events))), D(MaxOf(StartsOf(events)))>>

\* var nextDay = new Date(endDate); nextDay.setDate(nextDay.getDate() + 1)
NextDay(c) == IF c.t = "d" THEN D(AddOneDay(c.n)) ELSE InvalidDate

(* --------------------------- the repository --------------------------- *)
\* A CalendarEvent. id is the part of getId() before '@', the form the
\* sheet keeps and getEventById is called with; color is 0 for the
\* calendar's default colour; guests is a sequence of [email, status].
Event(id, title, start, end, allDay, description, color, guests, myStatus, location) ==
    [id |-> id, title |-> title, start |-> start, end |-> end, allDay |-> allDay,
     description |-> description, color |-> color, guests |-> guests,
     myStatus |-> myStatus, location |-> location]

\* The ids the repository assigns to new events, in order.
NewIds == <<"n1", "n2", "n3", "n4", "n5", "n6", "n7", "n8", "n9", "n10",
            "n11", "n12", "n13", "n14", "n15", "n16">>

ColorNames == <<"1", "2", "3", "4", "5", "6", "7", "8", "9", "10", "11">>
\* event.getColor(): a string, "" for the default colour.
getColor(ev) == IF ev.color = 0 THEN S("") ELSE S(ColorNames[ev.color])

\* calendar.getEventById(id): the event, or null.
EventIndex(cal, id) ==
    IF \E k \in 1..Len(cal) : cal[k].id = id
    THEN CHOOSE k \in 1..Len(cal) : cal[k].id = id
    ELSE 0
HasEvent(cal, id) == EventIndex(cal, id) # 0
getEventById(cal, id) == cal[EventIndex(cal, id)]

RemoveAt(s, k) == SubSeq(s, 1, k - 1) \o SubSeq(s, k + 1, Len(s))

RECURSIVE WithoutGuest(_, _)
WithoutGuest(gs, email) ==
    IF gs = <<>> THEN <<>>
    ELSE IF Head(gs).email = email THEN WithoutGuest(Tail(gs), email)
         ELSE <<Head(gs)>> \o WithoutGuest(Tail(gs), email)

HasGuest(gs, email) == \E k \in 1..Len(gs) : gs[k].email = email

\* A repository call: k is the position in the batch of the record it is
\* made for (0: the re-import), id the event it addresses, a its argument.
Call(k, op, id, a) == [k |-> k, op |-> op, id |-> id, a |-> a]

WriteOps == {"createEvent", "createAllDayEvent", "deleteEvent", "setTitle",
             "setTime", "setAllDayDate", "setAllDayDates", "setDescription",
             "setColor", "addGuest", "removeGuest", "setMyStatus", "setLocation"}
CreateOps == {"createEvent", "createAllDayEvent"}
SetterOps == WriteOps \ (CreateOps \cup {"deleteEvent"})

\* The guests option of a create: the emails the repository reads from the
\* comma-joined string.
RECURSIVE GuestsFromOption(_)
GuestsFromOption(toks) ==
    IF toks = <<>> THEN <<>>
    ELSE IF Head(toks).email = "" \/ HasGuest(GuestsFromOption(Tail(toks)), Head(toks).email)
         THEN GuestsFromOption(Tail(toks))
         ELSE <<[email |-> Head(toks).email, status |-> "invited"]>>
              \o GuestsFromOption(Tail(toks))

\* The event a create call makes. An all-day event runs over whole days,
\* its end exclusive and at least one day after its start.
CreatedEvent(c) ==
    LET p == c.a
        s == IF c.op = "createAllDayEvent" THEN FloorDay(p.start) ELSE p.start
        e == IF c.op = "createAllDayEvent"
             THEN IF FloorDay(p.end) > s THEN FloorDay(p.end) ELSE AddOneDay(s)
             ELSE p.end
    IN Event(c.id, p.title, s, e, c.op = "createAllDayEvent", p.description, 0,
             GuestsFromOption(p.guests), "OWNER", p.location)

\* The event after one setter call.
AfterSetter(ev, c) ==
    CASE c.op = "setTitle" -> [ev EXCEPT !.title = c.a]
      [] c.op = "setTime" -> [ev EXCEPT !.start = c.a[1], !.end = c.a[2], !.allDay = FALSE]
      [] c.op = "setAllDayDate" ->
            [ev EXCEPT !.start = FloorDay(c.a[1]), !.end = AddOneDay(FloorDay(c.a[1])),
                       !.allDay = TRUE]
      [] c.op = "setAllDayDates" ->
            [ev EXCEPT !.start = FloorDay(c.a[1]), !.end = FloorDay(c.a[2]), !.allDay = TRUE]
      [] c.op = "setDescription" -> [ev EXCEPT !.description = c.a]
      [] c.op = "setColor" -> [ev EXCEPT !.color = c.a]
      [] c.op = "addGuest" ->
            IF HasGuest(ev.guests, c.a) THEN ev
            ELSE [ev EXCEPT !.guests = Append(@, [email |-> c.a, status |-> "invited"])]
      [] c.op = "removeGuest" -> [ev EXCEPT !.guests = WithoutGuest(@, c.a)]
      [] c.op = "setMyStatus" -> [ev EXCEPT !.myStatus = c.a]
      [] c.op = "setLocation" -> [ev EXCEPT !.location = c.a]
      [] OTHER -> ev

\* The repository after one call that succeeded.
AfterCall(cal, c) ==
    CASE c.op \in CreateOps -> Append(cal, CreatedEvent(c))
      [] c.op = "deleteEvent" -> RemoveAt(cal, EventIndex(cal, c.id))
      [] c.op \in SetterOps ->
            [cal EXCEPT ![EventIndex(cal, c.id)] = AfterSetter(@, c)]
      [] OTHER -> cal

RECURSIVE AfterCalls(_, _)
AfterCalls(cal, cs) ==
    IF cs = <<>> THEN cal ELSE AfterCalls(AfterCall(cal, Head(cs)), Tail(cs))

RECURSIVE CountOps(_, _)
CountOps(cs, ops) ==
    IF cs = <<>> THEN 0
    ELSE (IF Head(cs).op \in ops THEN 1 ELSE 0) + CountOps(Tail(cs), ops)

(* --------------------------- Event Reconciler ------------------------- *)
\* What a handler does when the repository fails nowhere: the calls it
\* makes in order, how many of them (from the first) take effect, and
\* whether it ends by throwing.
Plan(cs, applied, throws) == [calls |-> cs, applied |-> applied, throws |-> throws]

\* The colour cell's number as it is.
ColorAsRead(row) == row[ColColor].n

\* const color = event[6] > 0 ? event[6] : 8
ColorOf(row) == IF GreaterThanZero(row[ColColor]) THEN row[ColColor].n ELSE DefaultColor

\* The switch on myStatusStr: no default case, so any other string leaves
\* myStatus undefined.
MyStatusOf(row) ==
    IF row[ColMyStatus].t = "s" /\ row[ColMyStatus].s \in {"OWNER", "INVITED", "YES", "NO", "MAYBE"}
    THEN E(row[ColMyStatus].s)
    ELSE Undefined

\* The end's time of day on the day after start.
EndTimeOnNextDay(start, end) ==
    IF DateLess(start, end) THEN end.n
    ELSE AddOneDay(FloorDay(start.n)) + (end.n - FloorDay(end.n))

\* The record's end, sent as it is.
RecordEnd(start, end) == end.n

\* var endDate = startTime < endTime ? endTime : nextDay
EffectiveEnd(start, end) ==
    IF DateLess(start, end) THEN end.n ELSE AddOneDay(start.n)

\* CreateEvent: one create call, then the colour on the new event.
CreateEvent(k, row, newId) ==
    LET payload == [title |-> row[ColTitle].s,
                    start |-> row[ColStart].n,
                    end |-> EffectiveEnd(row[ColStart], row[ColEnd]),
                    description |-> row[ColDescription].s,
                    location |-> row[ColLocation].s,
                    guests |-> Split(row[ColGuests]),
                    sendInvites |-> row[ColSendInvites]]
        op == IF Truthy(row[ColAllDay]) THEN "createAllDayEvent" ELSE "createEvent"
    IN <<Call(k, op, newId, payload), Call(k, "setColor", newId, ColorOf(row))>>

\* An addGuest for every piece, on the event or not.
GuestAddsAll(k, id, toks, calGuestList) ==
    [j \in 1..Len(toks) |-> Call(k, "addGuest", id, StripGuest(toks[j]))]

\* guests.forEach: addGuest for every piece whose email the event lacks.
RECURSIVE GuestAdds(_, _, _, _)
GuestAdds(k, id, toks, calGuestList) ==
    IF toks = <<>> THEN <<>>
    ELSE (IF ~HasGuest(calGuestList, StripGuest(Head(toks)))
          THEN <<Call(k, "addGuest", id, StripGuest(Head(toks)))>> ELSE <<>>)
         \o GuestAdds(k, id, Tail(toks), calGuestList)

\* calGuestList.forEach: removeGuest for every guest no piece names.
RECURSIVE GuestRemoves(_, _, _, _)
GuestRemoves(k, id, toks, calGuestList) ==
    IF calGuestList = <<>> THEN <<>>
    ELSE (IF ~\E j \in 1..Len(toks) : StripGuest(toks[j]) = Head(calGuestList).email
          THEN <<Call(k, "removeGuest", id, Head(calGuestList).email)>> ELSE <<>>)
         \o GuestRemoves(k, id, toks, Tail(calGuestList))

\* A guard that lets every guest list through.
AnyGuestList(guests) == TRUE

\* guests.length > 0 && guests[0] !== ''
HasDesiredGuests(guests) == Len(guests) > 0 /\ guests[1] # EmptyTok

\* The setter calls of UpdateEvent on an event that exists.
UpdateSetters(k, row, ev) ==
    LET id == ev.id
        start == row[ColStart]
        end == row[ColEnd]
        guests == Split(row[ColGuests])
        myStatus == MyStatusOf(row)
    IN (IF ev.title # row[ColTitle].s
        THEN <<Call(k, "setTitle", id, row[ColTitle].s)>> ELSE <<>>)
       \o (IF Truthy(row[ColAllDay])
           THEN IF DateLess(start, end) /\ getDate(start.n) < getDate(end.n)
                THEN <<Call(k, "setAllDayDates", id, <<start.n, end.n>>)>>
                ELSE <<Call(k, "setAllDayDate", id, <<start.n>>)>>
           ELSE <<Call(k, "setTime", id, <<start.n, EffectiveEnd(start, end)>>)>>)
       \o (IF ev.description # row[ColDescription].s
           THEN <<Call(k, "setDescription", id, row[ColDescription].s)>> ELSE <<>>)
       \o (IF ~StrictEq(getColor(ev), N(ColorOf(row)))
           THEN <<Call(k, "setColor", id, ColorOf(row))>> ELSE <<>>)
       \o (IF HasDesiredGuests(guests)
           THEN GuestAdds(k, id, guests, ev.guests) \o GuestRemoves(k, id, guests, ev.guests)
           ELSE <<>>)
       \o (IF ~StrictEq(E(ev.myStatus), myStatus)
           THEN <<Call(k, "setMyStatus", id, IF myStatus.t = "e" THEN myStatus.s ELSE "undefined")>>
           ELSE <<>>)
       \o (IF ev.location # row[ColLocation].s
           THEN <<Call(k, "setLocation", id, row[ColLocation].s)>> ELSE <<>>)

\* An update that never falls back to a create.
UpdateEventNoCreate(k, row, cal, newId) ==
    LET id == row[ColId].s
        get == <<Call(k, "getEventById", id, <<>>)>>
    IN IF HasEvent(cal, id)
       THEN Plan(get \o UpdateSetters(k, row, getEventById(cal, id)),
                 1 + Len(UpdateSetters(k, row, getEventById(cal, id))), FALSE)
       ELSE Plan(get, 1, FALSE)

\* The calls the repository refuses by throwing, whatever its state:
\* setMyStatus(undefined), and a call that is given a start which is no
\* Date.
Refuses(c, row) ==
    \/ c.op = "setMyStatus" /\ c.a = "undefined"
    \/ /\ c.op \in {"setTime", "setAllDayDate", "setAllDayDates",
                     "createEvent", "createAllDayEvent"}
       /\ row[ColStart].t # "d"

\* The calls cs as far as they run: all of them, or up to the first that
\* is refused, which throws.
PlanOf(cs, row) ==
    LET refused == {j \in 1..Len(cs) : Refuses(cs[j], row)}
        bad == CHOOSE j \in refused : \A m \in refused : j <= m
    IN IF refused = {} THEN Plan(cs, Len(cs), FALSE)
       ELSE Plan(SubSeq(cs, 1, bad), bad - 1, TRUE)

\* UpdateEvent: the lookup, then the setters, or CreateEvent when the
\* lookup finds nothing. A call that throws ends the update there, in the
\* catch.
UpdateEvent(k, row, cal, newId) ==
    LET id == row[ColId].s
        get == <<Call(k, "getEventById", id, <<>>)>>
    IN IF HasEvent(cal, id)
       THEN PlanOf(get \o UpdateSetters(k, row, getEventById(cal, id)), row)
       ELSE PlanOf(get \o CreateEvent(k, row, newId), row)

\* DeleteEvent: calendar.getEventById(id).deleteEvent(); on null the
\* member access throws a TypeError.
DeleteEvent(k, row, cal) ==
    LET id == row[ColId].s
        get == <<Call(k, "getEventById", id, <<>>)>>
    IN IF HasEvent(cal, id)
       THEN Plan(get \o <<Call(k, "deleteEvent", id, <<>>)>>, 2, FALSE)
       ELSE Plan(get, 1, TRUE)

\* A dispatch that tests the id before the delete option.
DecidePathIdFirst(row, cal) ==
    IF ~LooseEqEmpty(row[ColId]) THEN "update"
    ELSE IF Truthy(row[ColDelete]) THEN "delete"
    ELSE "create"

\* A dispatch that also matches an existing event by its title.
DecidePathByTitle(row, cal) ==
    IF Truthy(row[ColDelete]) THEN "delete"
    ELSE IF ~LooseEqEmpty(row[ColId])
            \/ \E j \in 1..Len(cal) : cal[j].title = row[ColTitle].s
         THEN "update"
    ELSE "create"

\* The dispatch of the forEach callback: deleteOpt first, then eventID,
\* the same in the all-day and the timed branch. (The guard before it,
\* eventID == undefined && ..., is false for every cell getValues returns.)
DecidePath(row, cal) ==
    IF Truthy(row[ColDelete]) THEN "delete"
    ELSE IF ~LooseEqEmpty(row[ColId]) THEN "update"
    ELSE "create"

(* ----------------------------- Import Mapper -------------------------- *)
\* calendar.getEvents(start, end): the events that overlap the window,
\* ordered by start time (events of one start time in creation order).
RECURSIVE InsertByStart(_, _)
InsertByStart(ev, s) ==
    IF s = <<>> THEN <<ev>>
    ELSE IF ev.start < Head(s).start THEN <<ev>> \o s
         ELSE <<Head(s)>> \o InsertByStart(ev, Tail(s))
RECURSIVE SortByStart(_)
SortByStart(s) ==
    IF s = <<>> THEN <<>>
    ELSE InsertByStart(s[Len(s)], SortByStart(SubSeq(s, 1, Len(s) - 1)))
getEvents(cal, ws, we) ==
    SortByStart(SelectSeq(cal, LAMBDA ev : ev.start < we /\ ev.end > ws))

\* `${g.getEmail()} (${g.getGuestStatus().toString().toLowerCase()})`,
\* joined by ', ': split(',') leaves the blank on every piece after the
\* first.
RenderGuests(gs) ==
    [k \in 1..Len(gs) |-> IF k = 1 THEN Tok(gs[k].email, gs[k].status)
                          ELSE PadTok(gs[k].email, gs[k].status)]

\* A row with the delete placeholder in the column deleteOpt is read from.
ImportRowAligned(ev) ==
    <<S(ev.id), S(ev.title), D(ev.start), D(ev.end), B(ev.allDay),
      S(ev.description), IF ev.color = 0 THEN S("") ELSE N(ev.color),
      G(RenderGuests(ev.guests)), S(ev.myStatus), S(ev.location), S(""),
      S("false")>>

\* The imported row with no id in its first column.
ImportRowWithoutId(ev) ==
    <<S(""), S(ev.title), D(ev.start), D(ev.end), B(ev.allDay),
      S(ev.description), IF ev.color = 0 THEN S("") ELSE N(ev.color),
      G(RenderGuests(ev.guests)), S(ev.myStatus), S(ev.location),
      S("false"), S("")>>

\* The row AddEventsToSheet pushes for one event: eleven values, the
\* delete placeholder 'false' in the eleventh; the twelfth cell of the
\* row stays as ClearSheet left it, empty. A colour string reads back from
\* the sheet as a number.
ImportRow(ev) ==
    <<S(ev.id), S(ev.title), D(ev.start), D(ev.end), B(ev.allDay),
      S(ev.description), IF ev.color = 0 THEN S("") ELSE N(ev.color),
      G(RenderGuests(ev.guests)), S(ev.myStatus), S(ev.location), S("false"),
      S("")>>

ImportRows(events) == [k \in 1..Len(events) |-> ImportRow(events[k])]

\* A ClearSheet that clears nothing.
KeepSheet(rows) == rows

\* ClearSheet: clearContent() on every row from the second down; the rows
\* with content that remain are none.
ClearSheet(rows) == <<>>

(* ----------------------------- the inputs ----------------------------- *)
Row(id, title, start, end, allDay, color, guests, del) ==
    <<S(id), S(title), D(start), D(end), B(allDay), S("d"), N(color), G(guests),
      S("OWNER"), S("loc"), B(FALSE), B(del)>>

\* "e1" is in the repository from the start, "e9" never is.
RowIds == {"", "e1", "e9"}
\* start, end, all-day: timed; timed with the end before the start;
\* all-day.
RowShapes == {<<TS(2, 1, 19), TS(2, 1, 20), FALSE>>,
              <<TS(2, 1, 20), TS(2, 1, 19), FALSE>>,
              <<TS(2, 1, 19), TS(2, 1, 20), TRUE>>}
\* Rows marked for deletion: id, start, end, all-day, colour, guests.
DeleteShapes == {<<"e1", TS(2, 1, 19), TS(2, 1, 20), FALSE, 0, <<>>>>,
                 <<"e1", TS(2, 2, 9), TS(2, 2, 10), TRUE, 3, <<Tok("a@x.com", "")>>>>,
                 <<"", TS(2, 2, 9), TS(2, 2, 10), TRUE, 3, <<Tok("a@x.com", "")>>>>,
                 <<"e9", TS(2, 1, 19), TS(2, 1, 20), FALSE, 0, <<>>>>}

RowSet ==
    {BlankRow}
    \cup {Row(id, "A", sh[1], sh[2], sh[3], 0, <<>>, FALSE) : id \in RowIds, sh \in RowShapes}
    \cup {Row(sh[1], "A", sh[2], sh[3], sh[4], sh[5], sh[6], TRUE) : sh \in DeleteShapes}
    \cup {Row("", "A", TS(2, 1, 19), TS(2, 3, 9), TRUE, 11, <<>>, FALSE)}
    \cup {Row("e1", "A", TS(2, 1, 19), TS(2, 1, 20), FALSE, 3,
               <<Tok("a@x.com", ""), PadTok("b@x.com", "yes")>>, FALSE)}
    \cup {Row("e1", "A", TS(1, 31, 0), TS(2, 2, 0), TRUE, 0, <<>>, FALSE)}
    \cup {[Row("", "A", TS(2, 1, 19), TS(2, 1, 20), FALSE, 0, <<>>, FALSE)
               EXCEPT ![ColMyStatus] = S("YES")]}
    \cup {[Row("e1", "A", TS(2, 1, 19), TS(2, 1, 20), FALSE, 0, <<>>, FALSE)
               EXCEPT ![ColMyStatus] = S("")]}

\* Rows with a start or an end cell that holds a text instead of a date,
\* beside a well-formed new row and a row that deletes "e1".
MalformedRowSet ==
    {[Row("e1", "B", TS(2, 1, 19), TS(2, 1, 20), FALSE, 0, <<>>, FALSE)
         EXCEPT ![ColStart] = S("n/a")],
     [Row("", "A", TS(2, 1, 19), TS(2, 1, 20), FALSE, 0, <<>>, FALSE)
         EXCEPT ![ColEnd] = S("n/a")],
     Row("", "A", TS(2, 2, 9), TS(2, 2, 10), FALSE, 0, <<>>, FALSE),
     Row("e1", "A", TS(2, 1, 19), TS(2, 1, 20), FALSE, 0, <<>>, TRUE)}

RECURSIVE SeqsUpTo(_, _)
SeqsUpTo(S_, n) ==
    IF n = 0 THEN {<<>>}
    ELSE SeqsUpTo(S_, n - 1)
         \cup {Append(s, x) : s \in {q \in SeqsUpTo(S_, n - 1) : Len(q) = n - 1}, x \in S_}

InitialCalendar ==
    <<Event("e1", "A", TS(2, 1, 19), TS(2, 1, 20), FALSE, "d", 0,
            <<[email |-> "b@x.com", status |-> "yes"],
              [email |-> "c@x.com", status |-> "invited"]>>, "OWNER", "loc")>>

(* ----------------------------- configuration ------------------------- *)
\* getProperty('CALID'): null when no id was ever stored; the id of the
\* user's calendar otherwise ("" cannot name a calendar).
CalendarIds == {Null, S(""), S("cal")}

\* CalendarApp.getCalendarById(id): the calendar, or null when there is no
\* calendar of that id (a call that throws instead ends GetSettings the
\* same way).
getCalendarById(id) == IF id = S("cal") THEN S("cal") ELSE Null

\* GetSettings builds the settings with
\* getCalendarById(getProperty('CALID')).getTimeZone(): on null the member
\* access throws a TypeError, before any caller has looked at calendarId.
GetSettingsThrows == getCalendarById(calendarId) = Null

\* settings.calendarId == null || settings.calendarId == ""
CalendarIdExists == ~(calendarId = Null \/ LooseEqEmpty(calendarId))

ConfigurationError == "Please make sure you have added you Calendar ID in settings!"

\* The windows the user picks in the date dialog: one over the events of
\* February, one with no event in it.
ImportWindows == {<<D(TS(2, 1, 0)), D(TS(2, 4, 0))>>, <<D(TS(1, 1, 0)), D(TS(1, 2, 0))>>}

(* --------------------------- Sync Orchestrator ------------------------ *)
\* An entry point that ends at once, showing the dialog given: nothing is
\* read from the sheet and nothing is called.
EndsAtOnce(e, dialog) ==
    /\ entry' = e
    /\ ui' = <<dialog>>
    /\ calls' = <<>>
    /\ batch' = <<>>
    /\ outcome' = <<>>
    /\ UNCHANGED <<sheet, calendar, nextId, pc, pass, range, i, failures, calendarId>>

Init ==
    /\ sheet \in SeqsUpTo(RowSet, MaxRows)
    /\ calendarId \in CalendarIds
    /\ entry = "none"
    /\ calendar = InitialCalendar
    /\ nextId = 0
    /\ pc = "idle"
    /\ pass = 0
    /\ batch = <<>>
    /\ range = <<InvalidDate, InvalidDate>>
    /\ i = 1
    /\ calls = <<>>
    /\ outcome = <<>>
    /\ failures = 0
    /\ ui = <<>>

\* The forEach has visited every record.
LoopDoneEarly(idx, n) == idx >= n
LoopDone(idx, n) == idx > n

\* A callback whose exception leaves the forEach and the pass.
NextRecordAbortOnThrow(idx, n, threw) == IF threw THEN n + 2 ELSE idx + 1
\* The callback is an async function with no await in it: it runs to its
\* end inside forEach, and an exception it throws only rejects the promise
\* it returns, which nobody reads. The forEach goes on to the next record.
NextRecord(idx, n, threw) == idx + 1

\* The entry of CreateOrUpdateEvents, up to the forEach: the rows are read,
\* the blank ones dropped and the range taken from the batch.
CreateOrUpdateEvents ==
    /\ pc = "idle"
    /\ IF GetSettingsThrows THEN EndsAtOnce("CreateOrUpdateEvents", "TypeError")
       ELSE IF ~CalendarIdExists
            THEN EndsAtOnce("CreateOrUpdateEvents", ConfigurationError)
       ELSE /\ pass < MaxPasses
            /\ entry' = "CreateOrUpdateEvents"
            /\ pc' = "run"
            /\ pass' = pass + 1
            /\ batch' = FilterRows(sheet)
            /\ range' = GetStartEndDates(FilterRows(sheet))
            /\ i' = 1
            /\ calls' = <<>>
            /\ outcome' = <<>>
            /\ ui' = <<>>
            /\ UNCHANGED <<sheet, calendar, nextId, failures, calendarId>>

\* The menu item 'Import Events': the date dialog, when there is a
\* calendar id.
FetchCalendarEvents ==
    /\ pc = "idle"
    /\ IF GetSettingsThrows THEN EndsAtOnce("FetchCalendarEvents", "TypeError")
       ELSE IF ~CalendarIdExists
            THEN EndsAtOnce("FetchCalendarEvents", ConfigurationError)
       ELSE EndsAtOnce("FetchCalendarEvents", "Date Range Selection")

\* Where the repository may fail during a handler: nowhere (0), or at one
\* of the calls that would otherwise take effect.
FailPoints(plan) ==
    {0} \cup (IF failures < MaxFailures THEN 1..plan.applied ELSE {})

\* The guests option of a create is guests.join(','), the pieces of the
\* cell as they are. What the repository does with a piece that is not a
\* bare address, "email (status)", is its own choice: it takes the address,
\* or it refuses the create by throwing. These are the creates of a plan
\* it may refuse.
Refusable(plan) ==
    {j \in 1..plan.applied :
        /\ plan.calls[j].op \in CreateOps
        /\ \E m \in 1..Len(plan.calls[j].a.guests) : plan.calls[j].a.guests[m].annot # ""}

\* One run of the forEach callback, for batch[i], on the path given.
Handle(path) ==
    /\ pc = "run"
    /\ ~LoopDone(i, Len(batch))
    /\ DecidePath(batch[i], calendar) = path
    /\ LET row == batch[i]
           newId == NewIds[nextId + 1]
           plan == IF row[ColGuests].t # "s" THEN Plan(<<>>, 0, TRUE)
                   ELSE CASE path = "delete" -> DeleteEvent(i, row, calendar)
                          [] path = "update" -> UpdateEvent(i, row, calendar, newId)
                          [] OTHER -> PlanOf(CreateEvent(i, row, newId), row)
       IN \E f \in FailPoints(plan) \cup Refusable(plan) :
            LET ran == IF f = 0 THEN plan
                       ELSE Plan(SubSeq(plan.calls, 1, f), f - 1, TRUE)
                done == SubSeq(ran.calls, 1, ran.applied)
                lookup == IF path = "create" \/ ran.calls = <<>> THEN "none"
                          ELSE IF ran.applied = 0 THEN "threw"
                          ELSE IF HasEvent(calendar, row[ColId].s) THEN "found"
                          ELSE "null"
                state == IF ran.throws THEN "Failed"
                         ELSE IF path = "delete" THEN "Deleted"
                         ELSE IF path = "update" /\ HasEvent(calendar, row[ColId].s)
                              THEN "Updated"
                         ELSE "Created"
            IN /\ calls' = calls \o ran.calls
               /\ calendar' = AfterCalls(calendar, done)
               /\ nextId' = nextId + CountOps(done, CreateOps)
               /\ failures' = failures + (IF f = 0 \/ f \in Refusable(plan) THEN 0 ELSE 1)
               /\ outcome' = Append(outcome,
                      [path |-> path, state |-> state, lookup |-> lookup,
                       fetched |-> IF lookup = "found"
                                   THEN <<getEventById(calendar, row[ColId].s)>>
                                   ELSE <<>>])
               /\ i' = NextRecord(i, Len(batch), ran.throws)
               /\ pc' = IF i' > Len(batch) + 1 THEN "idle" ELSE "run"
    /\ UNCHANGED <<sheet, pass, batch, range, ui, calendarId, entry>>

HandleDelete == Handle("delete")
HandleUpdate == Handle("update")
HandleCreate == Handle("create")

\* AddEventsToSheet(e): the events of the window replace the rows of the
\* sheet. getEvents throws on a repository failure; what it does with
\* Invalid Dates is the repository's choice: it throws, or it finds
\* nothing. The catch shows the error and leaves the sheet alone.
\* Called at the end of a pass it goes on with the pass's calls and
\* dialogs; called from the date dialog it is an execution of its own.
AddEventsToSheet(start, end) ==
    LET get == Call(0, "getEvents", "", <<start, end>>)
        before == IF pc = "run" THEN calls ELSE <<>>
        shown == IF pc = "run" THEN ui ELSE <<>>
    IN \/ /\ start.t = "d" /\ end.t = "d"
          /\ LET events == getEvents(calendar, start.n, end.n)
             IN /\ sheet' = ClearSheet(sheet) \o ImportRows(events)
                /\ calls' = before \o <<get, Call(0, "ClearSheet", "", <<>>)>>
                             \o (IF events # <<>>
                                 THEN <<Call(0, "setValues", "", Len(events))>>
                                 ELSE <<>>)
          /\ ui' = shown
          /\ UNCHANGED failures
       \/ /\ start.t = "d" /\ end.t = "d"
          /\ failures < MaxFailures
          /\ calls' = Append(before, get)
          /\ ui' = Append(shown, "An error has occured!")
          /\ failures' = failures + 1
          /\ UNCHANGED sheet
       \/ /\ ~(start.t = "d" /\ end.t = "d")
          /\ calls' = Append(before, get)
          /\ ui' = Append(shown, "An error has occured!")
          /\ UNCHANGED <<sheet, failures>>
       \/ /\ ~(start.t = "d" /\ end.t = "d")
          /\ sheet' = ClearSheet(sheet)
          /\ calls' = before \o <<get, Call(0, "ClearSheet", "", <<>>)>>
          /\ ui' = shown
          /\ UNCHANGED failures

\* AddEventsToSheet as the date dialog calls it, with the window the user
\* picked. It does not ask CalendarIdExists; GetSettings is its first
\* statement, outside the try.
ImportEvents ==
    /\ pc = "idle"
    /\ IF GetSettingsThrows THEN EndsAtOnce("AddEventsToSheet", "TypeError")
       ELSE /\ \E w \in ImportWindows : AddEventsToSheet(w[1], w[2])
            /\ entry' = "AddEventsToSheet"
            /\ batch' = <<>>
            /\ outcome' = <<>>
            /\ UNCHANGED <<calendar, nextId, pc, pass, range, i, calendarId>>

\* A pass that skips the re-import once a record has failed.
ReimportUnlessFailed ==
    /\ pc = "run"
    /\ LoopDone(i, Len(batch))
    /\ IF \E k \in 1..Len(outcome) : outcome[k].state = "Failed"
       THEN UNCHANGED <<sheet, calls, ui, failures>>
       ELSE AddEventsToSheet(range[1], NextDay(range[2]))
    /\ pc' = "idle"
    /\ UNCHANGED <<calendar, nextId, pass, batch, range, i, outcome, calendarId, entry>>

\* The end of CreateOrUpdateEvents, after the forEach: the re-import over
\* the range taken at the entry, its end moved one day on.
Reimport ==
    /\ pc = "run"
    /\ LoopDone(i, Len(batch))
    /\ AddEventsToSheet(range[1], NextDay(range[2]))
    /\ pc' = "idle"
    /\ UNCHANGED <<calendar, nextId, pass, batch, range, i, outcome, calendarId, entry>>

Next ==
    \/ CreateOrUpdateEvents
    \/ HandleDelete
    \/ HandleUpdate
    \/ HandleCreate
    \/ Reimport
    \/ FetchCalendarEvents
    \/ ImportEvents

Spec == Init /\ [][Next]_vars

\* The same program on sheets that hold malformed rows.
InitMalformed ==
    /\ sheet \in SeqsUpTo(MalformedRowSet, MaxRows)
    /\ calendar = InitialCalendar
    /\ nextId = 0
    /\ pc = "idle"
    /\ pass = 0
    /\ batch = <<>>
    /\ range = <<InvalidDate, InvalidDate>>
    /\ i = 1
    /\ calls = <<>>
    /\ outcome = <<>>
    /\ failures = 0
    /\ ui = <<>>
    /\ calendarId \in CalendarIds
    /\ entry = "none"

MalformedSpec == InitMalformed /\ [][Next]_vars

\* A pass that has started runs to its end: the script is one synchronous
\* execution, every step of which returns or throws. This is weak
\* fairness of Next, WF_vars(Next), that is
\* []<>~ENABLED <<Next>>_vars \/ []<><<Next>>_vars, with the states in
\* which no pass runs standing for the states in which Next is disabled
\* (a running pass always has a step: Handle while records remain, then
\* Reimport; RunningPassHasStep states it on i).
FairSpec == Spec /\ ([]<>(pc = "idle") \/ []<><<Next>>_vars)

RunningPassHasStep == pc = "run" => i \in 1..(Len(batch) + 1)

(* ------------------------------ properties ---------------------------- *)
\* The calls of the pass made for the record at position k of the batch.
CallsOf(k) == SelectSeq(calls, LAMBDA c : c.k = k)
Handled == 1..Len(outcome)
PassEnded == pc = "idle" /\ pass > 0 /\ entry = "CreateOrUpdateEvents"

\* C1 (delete precedence): a record whose delete option is set goes down
\* the delete path only: every call made for it is the lookup or the delete
\* of its own id, never a create nor a setter, whatever its other cells
\* hold; a record that ended Deleted had exactly one delete call.
C1_DeletePrecedence ==
    \A k \in Handled :
        Truthy(batch[k][ColDelete]) =>
            /\ outcome[k].path = "delete"
            /\ \A j \in 1..Len(calls) :
                   calls[j].k = k =>
                       /\ calls[j].op \in {"getEventById", "deleteEvent"}
                       /\ calls[j].id = batch[k][ColId].s
            /\ CountOps(CallsOf(k), {"deleteEvent"}) <= 1
            /\ outcome[k].state = "Deleted" =>
                   CountOps(CallsOf(k), {"deleteEvent"}) = 1

\* An all-day record with an id, a colour and a guest was deleted.
C1_Witness ==
    \E k \in Handled :
        /\ Truthy(batch[k][ColDelete])
        /\ batch[k][ColId].s = "e1"
        /\ batch[k][ColColor].n = 3
        /\ batch[k][ColGuests].g # <<>>
        /\ Truthy(batch[k][ColAllDay])
        /\ outcome[k].state = "Deleted"
        /\ ~HasEvent(calendar, "e1")

\* C2 (the id alone decides): a record without the delete option takes the
\* update path exactly when its id is not empty; with an empty id it takes
\* the create path, makes no lookup, and its first and only create call is
\* the all-day create for an all-day record and the timed create otherwise.
C2_IdIsSoleDiscriminator ==
    \A k \in Handled :
        ~Truthy(batch[k][ColDelete]) =>
            /\ (outcome[k].path = "update") <=> ~LooseEqEmpty(batch[k][ColId])
            /\ LooseEqEmpty(batch[k][ColId]) =>
                   /\ outcome[k].path = "create"
                   /\ CallsOf(k) # <<>>
                   /\ CallsOf(k)[1].op = (IF Truthy(batch[k][ColAllDay])
                                          THEN "createAllDayEvent" ELSE "createEvent")
                   /\ CountOps(CallsOf(k), CreateOps) = 1
                   /\ CountOps(CallsOf(k), {"getEventById"}) = 0

\* A record with no id was created although the repository already held an
\* event of the same title and times: the two now stand side by side.
C2_Witness ==
    \E k \in Handled :
        /\ LooseEqEmpty(batch[k][ColId])
        /\ ~Truthy(batch[k][ColDelete])
        /\ outcome[k].state = "Created"
        /\ \E a, b \in 1..Len(calendar) :
               /\ a < b
               /\ calendar[a].id = "e1"
               /\ calendar[b].id = CallsOf(k)[1].id
               /\ calendar[a].title = calendar[b].title
               /\ calendar[a].start = calendar[b].start
               /\ calendar[a].end = calendar[b].end

\* The records whose update found no event under their id.
SelfHealed == {k \in Handled : outcome[k].path = "update" /\ outcome[k].lookup = "null"}

\* What the create call of a self-healed record carries besides its end,
\* and that no setter is called on the id looked up.
SelfHealCreate(k) ==
    LET row == batch[k]
        cs == CallsOf(k)
    IN /\ CountOps(cs, CreateOps) = 1
       /\ cs[1].op = "getEventById"
       /\ cs[2].op \in CreateOps
       /\ cs[2].a.title = row[ColTitle].s
       /\ cs[2].a.start = row[ColStart].n
       /\ cs[2].a.description = row[ColDescription].s
       /\ cs[2].a.guests = Split(row[ColGuests])
       /\ cs[2].a.location = row[ColLocation].s
       /\ cs[2].a.sendInvites = row[ColSendInvites]
       /\ \A j \in 1..Len(cs) : cs[j].op \in SetterOps => cs[j].id # row[ColId].s

\* C3 as stated (self-healing update): exactly one create call carrying the
\* record's title, start, end, description, guests, location and
\* sendInvites, and no update setter.
C3_CreateCarriesRecordEnd ==
    \A k \in SelfHealed :
        /\ SelfHealCreate(k)
        /\ CallsOf(k)[2].a.end = batch[k][ColEnd].n

\* C3 as amended (self-healing update): exactly one create call carrying
\* the record's title, start, description, guests, location and
\* sendInvites; its end is the record's end when start < end and start + 1
\* day otherwise; the record's colour (8 when it is not above 0) follows in
\* the one setColor on the new event; no setter is called on the id that
\* was looked up.
C3_SelfHealingUpdate ==
    \A k \in SelfHealed :
        /\ SelfHealCreate(k)
        /\ CallsOf(k)[2].a.end =
               (IF batch[k][ColStart].n < batch[k][ColEnd].n
                THEN batch[k][ColEnd].n
                ELSE batch[k][ColStart].n + HoursPerDay)
        /\ outcome[k].state = "Created" =>
               /\ Len(CallsOf(k)) = 3
               /\ CallsOf(k)[3].op = "setColor"
               /\ CallsOf(k)[3].id = CallsOf(k)[2].id
               /\ CallsOf(k)[3].a = (IF batch[k][ColColor].n > 0
                                     THEN batch[k][ColColor].n ELSE DefaultColor)

\* A record naming the unknown id "e9", its end before its start, was
\* created anew.
C3_Witness ==
    \E k \in SelfHealed :
        /\ batch[k][ColId].s = "e9"
        /\ batch[k][ColEnd].n < batch[k][ColStart].n
        /\ outcome[k].state = "Created"
        /\ HasEvent(calendar, CallsOf(k)[2].id)
        /\ ~HasEvent(calendar, "e9")

\* C4 (idempotence): a second pass, run after a first one with no edit in
\* between and no repository failure, makes no repository write call.
C4_Idempotence ==
    (pass >= 2 /\ failures = 0) => CountOps(calls, WriteOps) = 0

\* C5 (ordering of a pass): the calls made for the records come in the
\* order of the records, none for a record after a call for a later one;
\* the re-import's calls come after all of them and only once every record
\* of the batch has ended; and the rows the re-import writes are the
\* events of the window as the repository holds them after the writes of
\* the pass, so every event the pass created is on the sheet.
C5_PassOrdering ==
    /\ \A p, q \in 1..Len(calls) :
           p < q => /\ calls[p].k = 0 => calls[q].k = 0
                    /\ calls[q].k # 0 => calls[p].k <= calls[q].k
    /\ \A k \in 1..Len(batch) : CallsOf(k) # <<>> => k \in Handled
    /\ (\E p \in 1..Len(calls) : calls[p].k = 0) => Len(outcome) = Len(batch)
    /\ (PassEnded /\ CountOps(calls, {"ClearSheet"}) = 1 /\ range[1].t = "d") =>
           /\ sheet = ImportRows(getEvents(calendar, range[1].n,
                                           range[2].n + HoursPerDay))
           /\ \A p \in 1..Len(calls) :
                  (calls[p].op \in CreateOps /\ HasEvent(calendar, calls[p].id)) =>
                      \E r \in 1..Len(sheet) : sheet[r][ColId].s = calls[p].id

\* A pass over two records, the first updated and the second created, and
\* the row of the new event written by the re-import.
C5_Witness ==
    /\ PassEnded
    /\ Len(batch) = 2
    /\ outcome[1].state = "Updated"
    /\ outcome[2].state = "Created"
    /\ CountOps(CallsOf(1), SetterOps) > 0
    /\ CountOps(calls, {"setValues"}) = 1
    /\ \E r \in 1..Len(sheet) : sheet[r][ColId].s = CallsOf(2)[1].id

\* C6 (failure isolation): when a pass has ended, every record of the
\* batch has been handled, on the path its own cells decide and with at
\* least one repository call, whatever happened to the others; a record
\* that ended Created has its event in the repository and one that ended
\* Deleted has none.
C6_FailureIsolation ==
    /\ pc = "run" => Len(outcome) = i - 1
    /\ PassEnded =>
           /\ Len(outcome) = Len(batch)
           /\ \A k \in 1..Len(batch) :
                  /\ outcome[k].path =
                         (IF Truthy(batch[k][ColDelete]) THEN "delete"
                          ELSE IF ~LooseEqEmpty(batch[k][ColId]) THEN "update"
                          ELSE "create")
                  /\ CallsOf(k) # <<>>
                  /\ outcome[k].state = "Created" =>
                         \E j \in 1..Len(CallsOf(k)) :
                             /\ CallsOf(k)[j].op \in CreateOps
                             /\ HasEvent(calendar, CallsOf(k)[j].id)
                  /\ outcome[k].state = "Deleted" =>
                         ~HasEvent(calendar, batch[k][ColId].s)

\* The repository failed on the first of two records, and the second was
\* reconciled all the same.
C6_Witness ==
    /\ PassEnded
    /\ Len(batch) = 2
    /\ failures = 1
    /\ outcome[1].state = "Failed"
    /\ outcome[2].state \in {"Created", "Updated", "Deleted"}
    /\ CountOps(CallsOf(2), WriteOps) > 0

\* The window [least start, greatest start + 1 day) of the batch, stated
\* on the starts themselves.
IsWindowOf(ws, we, events) ==
    /\ ws.t = "d" /\ we.t = "d"
    /\ \A k \in 1..Len(events) :
           ws.n <= events[k][ColStart].n /\ events[k][ColStart].n + HoursPerDay <= we.n
    /\ \E k \in 1..Len(events) : events[k][ColStart].n = ws.n
    /\ \E k \in 1..Len(events) : events[k][ColStart].n + HoursPerDay = we.n

ImportedOnce ==
    /\ CountOps(calls, {"getEvents"}) = 1
    /\ \A p \in 1..Len(calls) :
           calls[p].op = "getEvents" => IsWindowOf(calls[p].a[1], calls[p].a[2], batch)

\* C7 (mandatory refresh): a pass over a non-empty batch never calls the
\* Import Mapper while records remain, always comes to its end, and has
\* then called it exactly once, over the window of that batch, whether or
\* not records ended Failed.
C7_MandatoryRefresh ==
    /\ [](pc = "run" /\ ~LoopDone(i, Len(batch)) => CountOps(calls, {"getEvents"}) = 0)
    /\ []((PassEnded /\ batch # <<>>) => ImportedOnce)
    /\ ((pc = "run" /\ batch # <<>>) ~> (PassEnded /\ ImportedOnce))

\* A pass whose first record ended Failed has re-imported.
C7_Witness ==
    /\ PassEnded
    /\ batch # <<>>
    /\ outcome[1].state = "Failed"
    /\ ImportedOnce

\* Three records starting 2024-01-05, 2024-01-10 and 2024-01-03, their
\* ends well after the window.
RangeExample ==
    <<Row("", "A", TS(1, 5, 0), TS(1, 20, 0), FALSE, 0, <<>>, FALSE),
      Row("", "A", TS(1, 10, 0), TS(1, 25, 0), FALSE, 0, <<>>, FALSE),
      Row("", "A", TS(1, 3, 0), TS(1, 30, 0), FALSE, 0, <<>>, FALSE)>>

\* C8 (range derivation): the window every re-import of a non-empty batch
\* is called with is [least start, greatest start + 1 day) of the batch's
\* records, so it holds every record's start, and no end enters it; the
\* starts 2024-01-05, 2024-01-10, 2024-01-03 give [2024-01-03, 2024-01-11).
C8_RangeDerivation ==
    /\ \A p \in 1..Len(calls) :
           (calls[p].op = "getEvents" /\ batch # <<>>) =>
               /\ IsWindowOf(calls[p].a[1], calls[p].a[2], batch)
               /\ \A k \in 1..Len(batch) :
                      /\ calls[p].a[1].n <= batch[k][ColStart].n
                      /\ batch[k][ColStart].n < calls[p].a[2].n
    /\ GetStartEndDates(RangeExample)[1] = D(TS(1, 3, 0))
    /\ NextDay(GetStartEndDates(RangeExample)[2]) = D(TS(1, 11, 0))

\* A re-import over a batch of two records of different starts, one of
\* which ends after the window does.
C8_Witness ==
    /\ Len(batch) = 2
    /\ batch[1][ColStart].n # batch[2][ColStart].n
    /\ \E p \in 1..Len(calls) :
           /\ calls[p].op = "getEvents"
           /\ \E k \in 1..2 : batch[k][ColEnd].n > calls[p].a[2].n

\* C9 (empty batch): a pass whose batch is empty gets no window from the
\* Range Calculator and skips the re-import: no getEvents call, no write to
\* the row store, no error shown.
C9_EmptyBatchSkipsReimport ==
    (entry = "CreateOrUpdateEvents" /\ pass > 0 /\ batch = <<>>) =>
        /\ CountOps(calls, {"getEvents", "ClearSheet", "setValues"}) = 0
        /\ ui = <<>>

\* The timed creates of a record with start 2024-02-01T20:00 and end
\* 2024-02-01T19:00.
ReversedCreates ==
    {p \in 1..Len(calls) :
        /\ calls[p].op = "createEvent"
        /\ batch[calls[p].k][ColStart] = D(TS(2, 1, 20))
        /\ batch[calls[p].k][ColEnd] = D(TS(2, 1, 19))}

\* C10 as stated (end before start on create): the create is sent with
\* effectiveEnd = 2024-02-02T19:00.
C10_EndAtEndTimeNextDay ==
    \A p \in ReversedCreates : calls[p].a.end = TS(2, 2, 19)

\* C10 as amended (end before start on create): the create is sent with
\* start = 2024-02-01T20:00 and effectiveEnd = 2024-02-02T20:00, one day
\* after the start.
C10_EndBeforeStartOnCreate ==
    \A p \in ReversedCreates :
        calls[p].a.start = TS(2, 1, 20) /\ calls[p].a.end = TS(2, 2, 20)

\* Such a record, with no id, was created and its event runs to
\* 2024-02-02T20:00.
C10_Witness ==
    \E p \in ReversedCreates :
        /\ outcome[calls[p].k].path = "create"
        /\ outcome[calls[p].k].state = "Created"
        /\ HasEvent(calendar, calls[p].id)
        /\ getEventById(calendar, calls[p].id).end = TS(2, 2, 20)

\* The calls that write the times of a timed event, and what they carry.
TimedWrites == {p \in 1..Len(calls) : calls[p].op \in {"createEvent", "setTime"}}
SentStart(c) == IF c.op = "setTime" THEN c.a[1] ELSE c.a.start
SentEnd(c) == IF c.op = "setTime" THEN c.a[2] ELSE c.a.end

\* C11 (start < end for timed events): on the Create and on the Update
\* path the call that writes the times carries the record's start, and as
\* end the record's end when start < end and start + 1 day otherwise, so
\* the end sent is after the start; a timed record with end <= start that
\* ended Created or Updated did have its times written, and every timed
\* event of the repository has start < end.
C11_TimedStartBeforeEnd ==
    /\ \A p \in TimedWrites :
           LET row == batch[calls[p].k]
           IN /\ SentStart(calls[p]) = row[ColStart].n
              /\ SentEnd(calls[p]) = (IF row[ColStart].n < row[ColEnd].n
                                      THEN row[ColEnd].n
                                      ELSE row[ColStart].n + HoursPerDay)
              /\ SentStart(calls[p]) < SentEnd(calls[p])
    /\ \A k \in Handled :
           (/\ outcome[k].state \in {"Created", "Updated"}
            /\ ~Truthy(batch[k][ColAllDay])
            /\ batch[k][ColEnd].n <= batch[k][ColStart].n) =>
               \E p \in TimedWrites : calls[p].k = k
    /\ \A j \in 1..Len(calendar) :
           ~calendar[j].allDay => calendar[j].start < calendar[j].end

\* A record with the id of an event and its end before its start was
\* updated: the event now ends one day after its start.
C11_Witness ==
    \E k \in Handled :
        /\ k = Len(outcome)
        /\ outcome[k].path = "update"
        /\ outcome[k].state = "Updated"
        /\ batch[k][ColEnd].n < batch[k][ColStart].n
        /\ HasEvent(calendar, batch[k][ColId].s)
        /\ getEventById(calendar, batch[k][ColId].s).start = batch[k][ColStart].n
        /\ getEventById(calendar, batch[k][ColId].s).end = batch[k][ColStart].n + HoursPerDay

\* C12 (missing configuration): with no calendar id stored (null or
\* empty), an execution entered through CreateOrUpdateEvents,
\* FetchCalendarEvents or AddEventsToSheet makes no repository call and no
\* write to the row store, and shows the configuration error.
C12_MissingConfiguration ==
    (~CalendarIdExists /\ entry # "none") =>
        /\ calls = <<>>
        /\ pass = 0
        /\ ui = <<ConfigurationError>>

\* The records updated on an event that was found, with a guest cell that
\* names guests.
GuestUpdates ==
    {k \in Handled : /\ outcome[k].path = "update"
                     /\ outcome[k].fetched # <<>>
                     /\ Split(batch[k][ColGuests])[1] # EmptyTok}
Desired(k) ==
    {StripGuest(Split(batch[k][ColGuests])[j]) : j \in 1..Len(Split(batch[k][ColGuests]))}
Current(k) ==
    {outcome[k].fetched[1].guests[j].email : j \in 1..Len(outcome[k].fetched[1].guests)}
Sent(k, op) == {calls[p].a : p \in {q \in 1..Len(calls) : calls[q].k = k /\ calls[q].op = op}}
GuestEmails(ev) == {ev.guests[j].email : j \in 1..Len(ev.guests)}

\* C13 (guest diff on update): for a guest cell that names guests, the
\* update calls addGuest only for emails desired and not on the fetched
\* event, removeGuest only for emails on the event and not desired (emails
\* taken without annotation and blanks), so never for a guest in both; an
\* update that ran to its end has called addGuest for all of desired -
\* current and removeGuest for all of current - desired, and leaves the
\* event's guests equal to the desired set. Desired {a, b} on current
\* {b, c} adds a and removes c.
C13_GuestDiff ==
    \A k \in GuestUpdates :
        /\ Sent(k, "addGuest") \subseteq Desired(k) \ Current(k)
        /\ Sent(k, "removeGuest") \subseteq Current(k) \ Desired(k)
        /\ outcome[k].state = "Updated" =>
               /\ Sent(k, "addGuest") = Desired(k) \ Current(k)
               /\ Sent(k, "removeGuest") = Current(k) \ Desired(k)
               /\ k = Len(outcome) =>
                      GuestEmails(getEventById(calendar, batch[k][ColId].s)) = Desired(k)

\* The example: desired {a, b} (b annotated, after a blank) on an event
\* with guests {b, c}.
C13_Witness ==
    \E k \in GuestUpdates :
        /\ k = Len(outcome)
        /\ outcome[k].state = "Updated"
        /\ Desired(k) = {"a@x.com", "b@x.com"}
        /\ Current(k) = {"b@x.com", "c@x.com"}
        /\ Sent(k, "addGuest") = {"a@x.com"}
        /\ Sent(k, "removeGuest") = {"c@x.com"}
        /\ GuestEmails(getEventById(calendar, "e1")) = {"a@x.com", "b@x.com"}

\* The records updated on an event that was found, with an empty guest
\* cell: split(',') gives the one empty string.
EmptyGuestUpdates ==
    {k \in Handled : /\ outcome[k].path = "update"
                     /\ outcome[k].fetched # <<>>
                     /\ Split(batch[k][ColGuests]) = <<EmptyTok>>}

\* C14 (empty desired guest list): a record whose guest cell is empty
\* (its pieces are the single empty string) makes the update call neither
\* addGuest nor removeGuest, and the event keeps the guests it had.
C14_EmptyGuestsShortCircuit ==
    \A k \in EmptyGuestUpdates :
        /\ Sent(k, "addGuest") = {}
        /\ Sent(k, "removeGuest") = {}
        /\ (k = Len(outcome) /\ HasEvent(calendar, batch[k][ColId].s)) =>
               getEventById(calendar, batch[k][ColId].s).guests
                   = outcome[k].fetched[1].guests

\* An event with two guests was updated from a record with an empty guest
\* cell, and still has them.
C14_Witness ==
    \E k \in EmptyGuestUpdates :
        /\ k = Len(outcome)
        /\ outcome[k].state = "Updated"
        /\ batch[k][ColGuests] = G(<<>>)
        /\ Len(outcome[k].fetched[1].guests) = 2
        /\ CountOps(CallsOf(k), SetterOps) > 0
        /\ Len(getEventById(calendar, batch[k][ColId].s).guests) = 2

\* The event a handled record wrote to: the one it created, or the one
\* its id names.
EventOf(k) ==
    IF \E p \in 1..Len(calls) : calls[p].k = k /\ calls[p].op \in CreateOps
    THEN calls[CHOOSE p \in 1..Len(calls) : calls[p].k = k /\ calls[p].op \in CreateOps].id
    ELSE batch[k][ColId].s

\* The times a record means: for a timed record its start and the end
\* after the start (C11); for an all-day record the days of its start and
\* of its end, the end exclusive and at least one day on.
IntentStart(row) ==
    IF Truthy(row[ColAllDay]) THEN FloorDay(row[ColStart].n) ELSE row[ColStart].n
IntentEnd(row) ==
    IF Truthy(row[ColAllDay])
    THEN IF FloorDay(row[ColEnd].n) > FloorDay(row[ColStart].n)
         THEN FloorDay(row[ColEnd].n)
         ELSE FloorDay(row[ColStart].n) + HoursPerDay
    ELSE IF row[ColStart].n < row[ColEnd].n THEN row[ColEnd].n
         ELSE row[ColStart].n + HoursPerDay

\* The records of the batch that were created or updated and are the only
\* ones of the batch to address their event.
WrittenAlone ==
    {k \in Handled :
        /\ outcome[k].state \in {"Created", "Updated"}
        /\ \A j \in Handled : j # k => EventOf(j) # EventOf(k)}

\* Row r of the sheet says what record k meant, in the fields title,
\* start, end, isAllDay, description, guests' emails, ownerStatus and
\* location.
RowEqualsIntent(r, k) ==
    /\ sheet[r][ColTitle] = batch[k][ColTitle]
    /\ sheet[r][ColStart] = D(IntentStart(batch[k]))
    /\ sheet[r][ColEnd] = D(IntentEnd(batch[k]))
    /\ sheet[r][ColAllDay] = B(Truthy(batch[k][ColAllDay]))
    /\ sheet[r][ColDescription] = batch[k][ColDescription]
    /\ HasDesiredGuests(Split(batch[k][ColGuests])) =>
           {StripGuest(sheet[r][ColGuests].g[j]) : j \in 1..Len(sheet[r][ColGuests].g)}
               = Desired(k)
    /\ sheet[r][ColMyStatus] = batch[k][ColMyStatus]
    /\ sheet[r][ColLocation] = batch[k][ColLocation]

\* C15 (round trip): after a pass in which no record failed and the
\* re-import wrote its rows, every record created or updated has a row on
\* the sheet, under the id of its event, that equals what the record meant
\* in title, start, end, isAllDay, description, guests' emails, ownerStatus
\* and location.
C15_RoundTrip ==
    (/\ PassEnded
     /\ \A k \in Handled : outcome[k].state # "Failed"
     /\ CountOps(calls, {"setValues"}) = 1) =>
        \A k \in WrittenAlone :
            \E r \in 1..Len(sheet) :
                /\ sheet[r][ColId].s = EventOf(k)
                /\ RowEqualsIntent(r, k)

\* C16 (import never pre-marks deletion): the rows an import has written
\* hold no true value in the column the reconciler reads deleteOpt from; a
\* pass started on the rows of an import has no record on the delete path;
\* and a delete call is only ever made for a record whose deleteOpt is
\* true. So a pass run right after an import makes no delete call.
C16_ImportNeverMarksDeletion ==
    /\ []((pc = "idle" /\ CountOps(calls, {"ClearSheet"}) > 0) =>
              \A r \in 1..Len(sheet) : ~Truthy(sheet[r][ColDelete]))
    /\ [][(pc = "idle" /\ pc' = "run" /\ CountOps(calls, {"ClearSheet"}) > 0) =>
              \A k \in 1..Len(batch') : DecidePath(batch'[k], calendar') # "delete"]_vars
    /\ [](\A p \in 1..Len(calls) :
              calls[p].op = "deleteEvent" => Truthy(batch[calls[p].k][ColDelete]))

\* A second pass has ended on two rows the re-import of the first had
\* written (they carry the placeholder 'false'): both were updated and no
\* delete call was made.
C16_Witness ==
    /\ PassEnded
    /\ pass = 2
    /\ Len(batch) = 2
    /\ \A k \in 1..2 : /\ batch[k][ColSendInvites] = S("false")
                       /\ outcome[k].state = "Updated"
    /\ CountOps(calls, {"deleteEvent"}) = 0

\* The getEvents calls of the last execution that returned no event.
FoundNothing ==
    {p \in 1..Len(calls) :
        /\ calls[p].op = "getEvents"
        /\ "An error has occured!" \notin {ui[j] : j \in 1..Len(ui)}
        /\ (calls[p].a[1].t = "d" /\ calls[p].a[2].t = "d") =>
               getEvents(calendar, calls[p].a[1].n, calls[p].a[2].n) = <<>>}

\* C17 (import of an empty window clears): when the import has ended and
\* its getEvents returned no event, ClearSheet was called and no row is
\* left on the sheet.
C17_EmptyWindowClears ==
    (pc = "idle" /\ FoundNothing # {}) =>
        /\ CountOps(calls, {"ClearSheet"}) = 1
        /\ CountOps(calls, {"setValues"}) = 0
        /\ sheet = <<>>

\* A pass over two rows, whose events it deleted, re-imported a window
\* with no event left in it: the two rows are gone.
C17_Witness ==
    /\ PassEnded
    /\ Len(batch) = 2
    /\ calendar = <<>>
    /\ FoundNothing # {}
    /\ range[1].t = "d"
    /\ sheet = <<>>

\* The repository calls that write the dates of an all-day event: the
\* one-date call setAllDayDate(date), and the calls with a start and an
\* end date, setAllDayDates(start, end) and createAllDayEvent(title, start,
\* end, options). (createAllDayEvent(title, date, options), the one-date
\* create, is called nowhere.)
SingleDayOps == {"setAllDayDate"}
MultiDayOps == {"setAllDayDates", "createAllDayEvent"}

SameCalendarDay(row) == FloorDay(row[ColStart].n) = FloorDay(row[ColEnd].n)

\* C18 (all-day call selection): for an all-day record, created or
\* updated, the call that writes its dates is the single-day call when
\* start and end are on the same calendar day and the multi-day call
\* otherwise, also across a month boundary.
C18_AllDayCallSelection ==
    \A p \in 1..Len(calls) :
        (calls[p].op \in SingleDayOps \cup MultiDayOps) =>
            (calls[p].op \in SingleDayOps <=> SameCalendarDay(batch[calls[p].k]))

\* C19 (delete without id): a record with deleteOpt true and an empty id
\* causes no call to the repository, neither a lookup nor a delete; a
\* validation error is reported for it, and the pass goes on.
C19_DeleteWithoutId ==
    \A k \in Handled :
        (Truthy(batch[k][ColDelete]) /\ LooseEqEmpty(batch[k][ColId])) =>
            /\ CallsOf(k) = <<>>
            /\ outcome[k].state # "Failed"

\* C20 (delete of a vanished event): a record with deleteOpt true whose id
\* names no event of the repository ends as a no-op: no write call and no
\* create is made for it, and its handler does not end by throwing.
C20_DeleteOfVanishedEvent ==
    \A k \in Handled :
        (outcome[k].path = "delete" /\ outcome[k].lookup = "null") =>
            /\ CountOps(CallsOf(k), WriteOps) = 0
            /\ outcome[k].state # "Failed"

\* The records updated, to the end of UpdateEvent, on an event that was
\* found.
FullUpdates ==
    {k \in Handled : /\ outcome[k].path = "update"
                     /\ outcome[k].fetched # <<>>
                     /\ outcome[k].state = "Updated"}
OpsOf(k) == {calls[p].op : p \in {q \in 1..Len(calls) : calls[q].k = k}}

\* The record's dates or times differ from the fetched event's.
TimesDiffer(row, ev) ==
    \/ ev.allDay # Truthy(row[ColAllDay])
    \/ ev.start # IntentStart(row)
    \/ ev.end # IntentEnd(row)

\* C21 (minimal diff on update): an update calls the setter of title,
\* description, colour, location, ownerStatus and of the dates or times
\* exactly when the record's value differs from the value of the event as
\* fetched.
C21_MinimalDiff ==
    \A k \in FullUpdates :
        LET row == batch[k]
            ev == outcome[k].fetched[1]
        IN /\ ("setTitle" \in OpsOf(k)) <=> (ev.title # row[ColTitle].s)
           /\ ("setDescription" \in OpsOf(k)) <=> (ev.description # row[ColDescription].s)
           /\ ("setLocation" \in OpsOf(k)) <=> (ev.location # row[ColLocation].s)
           /\ ("setMyStatus" \in OpsOf(k)) <=> (ev.myStatus # row[ColMyStatus].s)
           /\ ("setColor" \in OpsOf(k)) <=> (ev.color # ColorOf(row))
           /\ (OpsOf(k) \cap {"setTime", "setAllDayDate", "setAllDayDates"} # {})
                  <=> TimesDiffer(row, ev)

\* The colour cells of the record domain: empty, 0, or a number in 1..11.
ColourInDomain(c) == c = S("") \/ (c.t = "n" /\ c.n \in 0..11)

\* C22 (colour coercion): every setColor call, after a create or in an
\* update, made for a record whose colour cell is empty or 0 carries the
\* default colour 8, and made for a record with a colour in 1..11 carries
\* that colour; so the colour sent lies in 1..11.
C22_ColourCoercion ==
    \A p \in 1..Len(calls) :
        (calls[p].op = "setColor" /\ ColourInDomain(batch[calls[p].k][ColColor])) =>
            LET c == batch[calls[p].k][ColColor]
            IN /\ (c = S("") \/ c = N(0)) => calls[p].a = DefaultColor
               /\ (c.t = "n" /\ c.n \in 1..11) => calls[p].a = c.n
               /\ calls[p].a \in 1..11

\* In one pass an event was updated from a record with colour 3 and an
\* event created from a record with colour 0: the first has colour 3, the
\* second the default colour 8.
C22_Witness ==
    /\ Len(outcome) = 2
    /\ \E k, j \in Handled :
           /\ outcome[k].state = "Updated" /\ batch[k][ColColor] = N(3)
           /\ getEventById(calendar, batch[k][ColId].s).color = 3
           /\ outcome[j].state = "Created" /\ batch[j][ColColor] = N(0)
           /\ getEventById(calendar, EventOf(j)).color = DefaultColor

\* A record whose start or end cell holds no Date.
Malformed(row) == row[ColStart].t # "d" \/ row[ColEnd].t # "d"

\* C23 (malformed record is skipped): a record without the delete option
\* whose start or end is no timestamp leaves the repository as it was when
\* its handler began: no event is created for it and the event it names
\* is as fetched; and the re-import of the pass is called over the window
\* of the well-formed records.
C23_MalformedRecordSkipped ==
    /\ \A k \in Handled :
           (Malformed(batch[k]) /\ outcome[k].path # "delete") =>
               /\ \A p \in 1..Len(calls) :
                      (calls[p].k = k /\ calls[p].op \in CreateOps) =>
                          ~HasEvent(calendar, calls[p].id)
               /\ (k = Len(outcome) /\ outcome[k].fetched # <<>>) =>
                      getEventById(calendar, batch[k][ColId].s) = outcome[k].fetched[1]
    /\ \A p \in 1..Len(calls) :
           (calls[p].op = "getEvents" /\ \E k \in 1..Len(batch) : ~Malformed(batch[k])) =>
               IsWindowOf(calls[p].a[1], calls[p].a[2],
                          SelectSeq(batch, LAMBDA row : ~Malformed(row)))

\* A dialog other than the error dialog has been shown.
SummaryShown == \E j \in 1..Len(ui) : ui[j] # "An error has occured!"

\* C24 (outcomes are collected): every record handled has ended in one of
\* Deleted, Updated, Created, Failed; when the pass has ended every record
\* of the batch has, and the pass has shown the user a summary of them.
C24_OutcomesSummarized ==
    /\ \A k \in Handled : outcome[k].state \in {"Deleted", "Updated", "Created", "Failed"}
    /\ (PassEnded /\ batch # <<>>) =>
           /\ Len(outcome) = Len(batch)
           /\ SummaryShown

\* C25 (create payload carries bare emails): the guests a create call
\* carries, on the Create path or in the create an update falls back to,
\* are addresses only, with no annotation in parentheses and no blank
\* around them.
C25_CreateCarriesBareEmails ==
    \A p \in 1..Len(calls) :
        calls[p].op \in CreateOps =>
            \A m \in 1..Len(calls[p].a.guests) :
                /\ calls[p].a.guests[m].annot = ""
                /\ ~calls[p].a.guests[m].pad

\* The events the import of the last execution was given: those of the
\* window of its getEvents call.
ImportedEvents ==
    LET p == CHOOSE q \in 1..Len(calls) : calls[q].op = "getEvents"
    IN getEvents(calendar, calls[p].a[1].n, calls[p].a[2].n)

\* C26 (column contract): in every row an import has written, each field
\* of the event stands in the column the reconciler reads that field from:
\* id, title, start, end, isAllDay, description, colorId, guests,
\* ownerStatus and location, and the import's deleteOpt 'false' in the column of deleteOpt,
\* with nothing in the column of sendInvites, which the import does not
\* write.
C26_ColumnContract ==
    (pc = "idle" /\ CountOps(calls, {"setValues"}) = 1) =>
        /\ Len(sheet) = Len(ImportedEvents)
        /\ \A r \in 1..Len(sheet) :
               LET ev == ImportedEvents[r]
               IN /\ sheet[r][ColId] = S(ev.id)
                  /\ sheet[r][ColTitle] = S(ev.title)
                  /\ sheet[r][ColStart] = D(ev.start)
                  /\ sheet[r][ColEnd] = D(ev.end)
                  /\ sheet[r][ColAllDay] = B(ev.allDay)
                  /\ sheet[r][ColDescription] = S(ev.description)
                  /\ sheet[r][ColColor] = (IF ev.color = 0 THEN S("") ELSE N(ev.color))
                  /\ sheet[r][ColGuests] = G(RenderGuests(ev.guests))
                  /\ sheet[r][ColMyStatus] = S(ev.myStatus)
                  /\ sheet[r][ColLocation] = S(ev.location)
                  /\ sheet[r][ColSendInvites] = S("")
                  /\ sheet[r][ColDelete] = S("false")

\* C27 (owner-status mapping is total): the status string of every record
\* handled maps to a status value, and no setMyStatus call carries
\* undefined.
C27_OwnerStatusTotal ==
    /\ \A k \in Handled :
           outcome[k].path = "update" => MyStatusOf(batch[k]) # Undefined
    /\ \A p \in 1..Len(calls) :
           calls[p].op = "setMyStatus" => calls[p].a # "undefined"

\* C28 (update is all or nothing): when a call of an update on an event
\* that was found has failed, the event is left with the values it was
\* fetched with.
C28_UpdateAllOrNothing ==
    \A k \in Handled :
        (/\ k = Len(outcome)
         /\ outcome[k].path = "update"
         /\ outcome[k].fetched # <<>>
         /\ outcome[k].state = "Failed") =>
            getEventById(calendar, batch[k][ColId].s) = outcome[k].fetched[1]

\* The re-import of the pass has run to its end: the sheet was cleared
\* and the rows of the window, if any, written.
ReimportCompleted == PassEnded /\ CountOps(calls, {"ClearSheet"}) = 1

\* C30 (no loss of unapplied rows): after the re-import of a pass, a
\* record without the delete option that ended Failed is still a row of
\* the sheet, with the values the user gave it.
C30_FailedRowsKept ==
    ReimportCompleted =>
        \A k \in Handled :
            (outcome[k].state = "Failed" /\ ~Truthy(batch[k][ColDelete])) =>
                \E r \in 1..Len(sheet) : sheet[r] = batch[k]

\* Every row carries the id of an event of the repository and no delete
\* option.
RowsKnown(rows, cal) ==
    \A r \in 1..Len(rows) :
        /\ rows[r][ColId].s # ""
        /\ HasEvent(cal, rows[r][ColId].s)
        /\ ~Truthy(rows[r][ColDelete])

\* C29 (no duplicate creation across passes): after a pass whose
\* re-import completed, every row of the sheet carries a non-empty id of a
\* repository event; the pass that follows with the sheet as it stands
\* handles only such rows, issues no create call, and no step of it makes
\* the repository grow.
C29_NoDuplicateCreation ==
    /\ [](ReimportCompleted => RowsKnown(sheet, calendar))
    /\ [][(ReimportCompleted /\ pc' = "run") =>
              (batch' = sheet /\ RowsKnown(batch', calendar'))]_vars
    /\ []((pc = "run" /\ RowsKnown(batch, calendar)) =>
              CountOps(calls, CreateOps) = 0)
    /\ [][(pc = "run" /\ RowsKnown(batch, calendar)) =>
              (Len(calendar') <= Len(calendar)
               /\ CountOps(calls', CreateOps) = 0)]_vars

\* The second pass, over the rows the re-import of the first wrote after
\* an event was created, has updated both of its records.
C29_Witness ==
    /\ pc = "run"
    /\ pass = 2
    /\ Len(batch) = 2
    /\ batch[1][ColSendInvites] = S("false")
    /\ RowsKnown(batch, calendar)
    /\ Len(outcome) = 2
    /\ \A k \in Handled : outcome[k].state = "Updated"
    /\ Len(calendar) = 2
    /\ CountOps(calls, CreateOps) = 0

====
